---------------------------- MODULE Spec2Model ----------------------------
(***************************************************************************)
(* The validation sections of scripts/split_parquet.py (realign, identity  *)
(* order) and scripts/split_parquet_and_shuffle.py (shuffle, permutation). *)
(* Each script loads a source dataset, obtains a transformed dataset from  *)
(* the dataset library and then runs seven numbered validation steps, each *)
(* a sequence of assert statements.  A failing assert raises               *)
(* AssertionError and ends the script; an exception raised by the dataset  *)
(* library (a frame that cannot be read, an index out of range) ends it    *)
(* too, except inside the try/except of the shuffle script's matching loop.*)
(*                                                                         *)
(* Python indices are 0-based, TLA+ sequences 1-based: episode ordinal i   *)
(* is episodes[i+1], global frame index idx is frames[idx+1].              *)
(* Action values are integers in units of 1e-6, so atol=1e-5 is 10 units.  *)
(***************************************************************************)
EXTENDS Integers, Sequences, FiniteSets, TLC

VARIABLES
    script,     \* which script runs: "split_parquet" or "split_parquet_and_shuffle"
    dataset,    \* the source dataset (`dataset` in both scripts)
    candidate,  \* the transformed dataset (`aligned` / `shuffled`)
    pc,         \* number of the validation step to run next, 1..7; 8 after the last
    outcome,    \* "running", "passed", "failed" (AssertionError), "error" (other exception)
    result,     \* result[k] of validation step k: "none" until the step has run
    detail,     \* the assert message / exception of the step that ended the run
    swallowed   \* source episode ordinals whose read raised inside try/except

vars == <<script, dataset, candidate, pc, outcome, result, detail, swallowed>>

-----------------------------------------------------------------------------
(* Program constants *)

SampleEpisodes == 10
AlignEpisodes == 20
EpisodeFrames == 10
MinEpisodesForOrder == 5
OrderCompare == 10
Atol == 10
RtolInv == 100000
NumSteps == 7

(* Bounds of the model *)

MaxDelta == 1
MaxSmall == 3
MaxPerm == 5
Beyond == 2
MaxFrames == 9
MaxDist == 3
MaxAccess == 4

-----------------------------------------------------------------------------
(* Arithmetic helpers *)

Min(a, b) == IF a < b THEN a ELSE b

Abs(x) == IF x < 0 THEN 0 - x ELSE x

SetMin(S) == CHOOSE x \in S : \A y \in S : x <= y

RECURSIVE SumTo(_, _)
SumTo(lens, k) == IF k = 0 THEN 0 ELSE SumTo(lens, k - 1) + lens[k]

-----------------------------------------------------------------------------
(* Dataset handles, as the scripts read them *)

HasEpisode(ds, i) == i >= 0 /\ i < Len(ds.episodes)

Episode(ds, i) == ds.episodes[i + 1]

\* ds[idx] succeeds: the frame exists and its files can be read and decoded
Readable(ds, idx) == idx >= 0 /\ idx < Len(ds.frames) /\ ds.frames[idx + 1].readable

Frame(ds, idx) == ds.frames[idx + 1]


-----------------------------------------------------------------------------
(* What a validation step yields: it passes, is skipped with a warning,    *)
(* fails an assert (AssertionError with the assert's message) or raises    *)
(* another exception.  index is the episode ordinal or frame index the     *)
(* message names, -1 when it names none.                                   *)

Pass == [r |-> "pass", msg |-> "", index |-> 0 - 1]

Skip(msg) == [r |-> "skip", msg |-> msg, index |-> 0 - 1]

Fail(msg, index) == [r |-> "fail", msg |-> msg, index |-> index]

Raise(msg, index) == [r |-> "error", msg |-> msg, index |-> index]

\* asserts that only report, and exceptions that are swallowed
AbortsNever(v) == FALSE

\* an assert that fails, or an exception that is not caught, ends the script
Aborts(v) == v.r \in {"fail", "error"}

-----------------------------------------------------------------------------
(* torch.allclose(input, other, atol=1e-5): the call leaves rtol at its    *)
(* default 1e-5 and equal_nan at False, so two values are close iff        *)
(* |input - other| <= atol + rtol * |other| and neither is NaN.  With      *)
(* integer units of 1e-6 the bound is 10 + |other| / 100000, and an        *)
(* integer is at most that iff it is at most its floor.                    *)

Close(input, other) == Abs(input - other) <= Atol + (Abs(other) \div RtolInv)

AllClose(input, other) ==
    /\ ~input.nan
    /\ ~other.nan
    /\ \A i \in 1..Len(input.v) : Close(input.v[i], other.v[i])

-----------------------------------------------------------------------------
(* Step 1 of both scripts: basic metadata counts *)

\* a metadata check that forgets the frame count
MetadataCheckNoFrames(ds, cd) ==
    IF cd.total_episodes # ds.total_episodes THEN Fail("Episode count mismatch", 0 - 1)
    ELSE IF cd.total_tasks # ds.total_tasks THEN Fail("Task count mismatch", 0 - 1)
    ELSE IF cd.fps # ds.fps THEN Fail("FPS mismatch", 0 - 1)
    ELSE Pass

MetadataCheck(ds, cd) ==
    IF cd.total_episodes # ds.total_episodes THEN Fail("Episode count mismatch", 0 - 1)
    ELSE IF cd.total_frames # ds.total_frames THEN Fail("Frame count mismatch", 0 - 1)
    ELSE IF cd.total_tasks # ds.total_tasks THEN Fail("Task count mismatch", 0 - 1)
    ELSE IF cd.fps # ds.fps THEN Fail("FPS mismatch", 0 - 1)
    ELSE Pass

-----------------------------------------------------------------------------
(* split_parquet.py steps 2 and 3: lengths and tasks of the first episodes *)

\* a sample one episode short
SampledEpisodesShort(ds) == 0..(Min(SampleEpisodes - 1, ds.total_episodes) - 1)

\* range(min(10, dataset.meta.total_episodes))
SampledEpisodes(ds) == 0..(Min(SampleEpisodes, ds.total_episodes) - 1)

\* a lengths check that compares episode i with the candidate's episode i + 1
LengthsCheckOffByOne(ds, cd) ==
    LET bad == {i \in SampledEpisodes(ds) :
                   HasEpisode(cd, i + 1)
                   /\ Episode(ds, i).length # Episode(cd, i + 1).length}
    IN  IF bad = {} THEN Pass ELSE Fail("length mismatch", SetMin(bad))

LengthsCheck(ds, cd) ==
    LET bad == {i \in SampledEpisodes(ds) :
                   \/ ~HasEpisode(ds, i)
                   \/ ~HasEpisode(cd, i)
                   \/ Episode(ds, i).length # Episode(cd, i).length}
    IN  IF bad = {} THEN Pass
        ELSE LET i == SetMin(bad)
             IN  IF ~HasEpisode(ds, i) \/ ~HasEpisode(cd, i)
                 THEN Raise("IndexError", i)
                 ELSE Fail("length mismatch", i)

TasksCheck(ds, cd) ==
    LET bad == {i \in SampledEpisodes(ds) :
                   \/ ~HasEpisode(ds, i)
                   \/ ~HasEpisode(cd, i)
                   \/ Episode(ds, i).tasks # Episode(cd, i).tasks}
    IN  IF bad = {} THEN Pass
        ELSE LET i == SetMin(bad)
             IN  IF ~HasEpisode(ds, i) \/ ~HasEpisode(cd, i)
                 THEN Raise("IndexError", i)
                 ELSE Fail("tasks mismatch", i)

-----------------------------------------------------------------------------
(* split_parquet.py step 4: sample frame data integrity *)

\* sample indices that end at N instead of N - 1
SampleIndicesPastEnd(ds) ==
    LET N == ds.total_frames
    IN  <<0, N \div 4, N \div 2, (3 * N) \div 4, N>>

\* [0, N // 4, N // 2, 3 * N // 4, N - 1] with N = dataset.meta.total_frames
SampleIndices(ds) ==
    LET N == ds.total_frames
    IN  <<0, N \div 4, N \div 2, (3 * N) \div 4, N - 1>>

\* the body of the loop for one sampled index
FrameCheck(ds, cd, idx) ==
    IF ~Readable(ds, idx) THEN Raise("dataset[idx]", idx)
    ELSE IF ~Readable(cd, idx) THEN Raise("aligned[idx]", idx)
    ELSE IF ~AllClose(Frame(ds, idx).action, Frame(cd, idx).action)
         THEN Fail("action mismatch", idx)
    ELSE IF Frame(ds, idx).episode_index # Frame(cd, idx).episode_index
         THEN Fail("episode_index mismatch", idx)
    ELSE Pass

RECURSIVE FramesFrom(_, _, _, _)
FramesFrom(ds, cd, idxs, k) ==
    IF k > Len(idxs) THEN Pass
    ELSE LET v == FrameCheck(ds, cd, idxs[k])
         IN  IF Aborts(v) THEN v ELSE FramesFrom(ds, cd, idxs, k + 1)

FramesCheck(ds, cd) == FramesFrom(ds, cd, SampleIndices(ds), 1)

-----------------------------------------------------------------------------
(* Step 5 of both scripts: video frames load correctly *)

VideoKeyCheck(cd, k) ==
    IF ~Readable(cd, 0) THEN Raise("candidate[0]", k - 1)
    ELSE LET img == Frame(cd, 0).images[cd.video_keys[k]]
         IN  IF ~(img.dim = 3 /\ img.channels = 3) THEN Fail("invalid shape", k - 1)
             ELSE IF ~(img.min >= 0 /\ img.max <= 1) THEN Fail("invalid pixel range", k - 1)
             ELSE Pass

RECURSIVE VideoFrom(_, _)
VideoFrom(cd, k) ==
    IF k > Len(cd.video_keys) THEN Pass
    ELSE LET v == VideoKeyCheck(cd, k)
         IN  IF Aborts(v) THEN v ELSE VideoFrom(cd, k + 1)

VideoCheck(cd) == VideoFrom(cd, 1)

-----------------------------------------------------------------------------
(* Step 6 of both scripts: file alignment of the first episodes *)

\* a prefix that stops one episode early
AlignedEpisodesShort(cd) == 0..(Min(AlignEpisodes, cd.total_episodes) - 2)

\* range(min(20, candidate.meta.total_episodes))
AlignedEpisodes(cd) == 0..(Min(AlignEpisodes, cd.total_episodes) - 1)

AlignmentCheck(cd) ==
    IF Len(cd.video_keys) = 0 THEN Raise("IndexError video_keys[0]", 0 - 1)
    ELSE
    LET first_video_key == cd.video_keys[1]
        bad == {i \in AlignedEpisodes(cd) :
                   \/ ~HasEpisode(cd, i)
                   \/ Episode(cd, i).data # Episode(cd, i).videos[first_video_key]
                   \/ Episode(cd, i).data # Episode(cd, i).meta_episodes}
    IN  IF bad = {} THEN Pass
        ELSE LET i == SetMin(bad)
             IN  IF ~HasEpisode(cd, i) THEN Raise("IndexError", i)
                 ELSE IF Episode(cd, i).data # Episode(cd, i).videos[first_video_key]
                      THEN Fail("data != video", i)
                 ELSE Fail("data != meta", i)

-----------------------------------------------------------------------------
(* split_parquet.py step 7: load all frames of the aligned dataset *)

LoadAllCheck(cd) ==
    LET bad == {idx \in 0..(Len(cd.frames) - 1) : ~Readable(cd, idx)}
    IN  IF bad = {} THEN Pass ELSE Raise("streaming frame", SetMin(bad))

-----------------------------------------------------------------------------
(* split_parquet_and_shuffle.py step 2: task distribution preserved *)

\* the Counter after the first n iterations of the loop: tasks tuple -> count
\* a counter that records which tuples occur, not how often
RECURSIVE TaskCounterAsSet(_, _)
TaskCounterAsSet(ds, n) ==
    IF n = 0 THEN << >>
    ELSE LET c == TaskCounterAsSet(ds, n - 1)
             t == Episode(ds, n - 1).tasks
         IN  IF t \in DOMAIN c THEN c ELSE c @@ (t :> 1)

RECURSIVE TaskCounter(_, _)
TaskCounter(ds, n) ==
    IF n = 0 THEN << >>
    ELSE LET c == TaskCounter(ds, n - 1)
             t == Episode(ds, n - 1).tasks
         IN  IF t \in DOMAIN c THEN [c EXCEPT ![t] = @ + 1] ELSE c @@ (t :> 1)

TaskDistributionCheck(ds, cd) ==
    LET n == ds.total_episodes
        bad == {i \in 0..(n - 1) : ~HasEpisode(ds, i) \/ ~HasEpisode(cd, i)}
    IN  IF bad # {} THEN Raise("IndexError", SetMin(bad))
        ELSE IF TaskCounter(ds, n) # TaskCounter(cd, n)
             THEN Fail("Task distribution changed!", 0 - 1)
        ELSE Pass

-----------------------------------------------------------------------------
(* split_parquet_and_shuffle.py step 3: episode lengths match when sorted *)

RECURSIVE Insert(_, _)
Insert(x, sorted) ==
    IF sorted = << >> THEN <<x>>
    ELSE IF x <= Head(sorted) THEN <<x>> \o sorted
    ELSE <<Head(sorted)>> \o Insert(x, Tail(sorted))

RECURSIVE Sorted(_)
Sorted(seq) == IF seq = << >> THEN << >> ELSE Insert(Head(seq), Sorted(Tail(seq)))

\* [ep["length"] for ep in ds.meta.episodes]
Lengths(ds) == [i \in 1..Len(ds.episodes) |-> ds.episodes[i].length]

\* a comparison of the length lists as they stand
SortedLengthsCheckUnsorted(ds, cd) ==
    IF Lengths(ds) # Lengths(cd)
    THEN Fail("Episode lengths don't match after sorting", 0 - 1)
    ELSE Pass

SortedLengthsCheck(ds, cd) ==
    IF Sorted(Lengths(ds)) # Sorted(Lengths(cd))
    THEN Fail("Episode lengths don't match after sorting", 0 - 1)
    ELSE Pass

-----------------------------------------------------------------------------
(* split_parquet_and_shuffle.py step 4: sampled shuffled episodes exist in *)
(* the original                                                            *)

\* get_episode_actions(ds, ep_idx): the actions of the episode's first 10
\* frames, stacked; ok is FALSE when the call raises (no such episode, a
\* frame that cannot be read, torch.stack of an empty list)
GetEpisodeActions(ds, ep_idx) ==
    IF ~HasEpisode(ds, ep_idx) THEN [ok |-> FALSE, actions |-> << >>]
    ELSE
    LET ep == Episode(ds, ep_idx)
        start == ep.dataset_from_index
        stop == Min(start + EpisodeFrames, ep.dataset_to_index)
        n == IF stop > start THEN stop - start ELSE 0
    IN  IF n = 0 \/ \E i \in start..(stop - 1) : ~Readable(ds, i)
        THEN [ok |-> FALSE, actions |-> << >>]
        ELSE [ok |-> TRUE, actions |-> [j \in 1..n |-> Frame(ds, start + j - 1).action]]

\* shuffled_actions.shape == original_actions.shape
SameShape(a, b) ==
    /\ Len(a) = Len(b)
    /\ \A j \in 1..Len(a) : Len(a[j].v) = Len(b[j].v)

\* torch.allclose(shuffled_actions, original_actions, atol=1e-5)
StackClose(a, b) == \A j \in 1..Len(a) : AllClose(a[j], b[j])

\* the inner loop from old_idx on: whether a match is found, and which
\* source episodes were skipped by `except Exception: continue` on the way
RECURSIVE FindMatch(_, _, _)
FindMatch(ds, shuffled_actions, old_idx) ==
    IF old_idx >= ds.total_episodes THEN [found |-> FALSE, skipped |-> {}]
    ELSE LET original == GetEpisodeActions(ds, old_idx)
         IN  IF ~original.ok
             THEN LET rest == FindMatch(ds, shuffled_actions, old_idx + 1)
                  IN  [found |-> rest.found, skipped |-> rest.skipped \cup {old_idx}]
             ELSE IF SameShape(shuffled_actions, original.actions)
                     /\ StackClose(shuffled_actions, original.actions)
                  THEN [found |-> TRUE, skipped |-> {}]
             ELSE FindMatch(ds, shuffled_actions, old_idx + 1)

\* [0, total_episodes // 2, total_episodes - 1] of the shuffled dataset
CheckIndices(cd) == <<0, cd.total_episodes \div 2, cd.total_episodes - 1>>

\* the outer loop from the k-th check index on
RECURSIVE MatchFrom(_, _, _)
MatchFrom(ds, cd, k) ==
    IF k > Len(CheckIndices(cd)) THEN [v |-> Pass, skipped |-> {}]
    ELSE LET new_idx == CheckIndices(cd)[k]
             shuffled_actions == GetEpisodeActions(cd, new_idx)
         IN  IF ~shuffled_actions.ok
             THEN [v |-> Raise("get_episode_actions(shuffled)", new_idx), skipped |-> {}]
             ELSE LET m == FindMatch(ds, shuffled_actions.actions, 0)
                  IN  IF ~m.found
                      THEN [v |-> Fail("no matching data in original", new_idx),
                            skipped |-> m.skipped]
                      ELSE LET rest == MatchFrom(ds, cd, k + 1)
                           IN  [v |-> rest.v, skipped |-> m.skipped \cup rest.skipped]

MatchCheck(ds, cd) == MatchFrom(ds, cd, 1)

-----------------------------------------------------------------------------
(* split_parquet_and_shuffle.py step 7: episode order changed *)

\* [tuple(ds.meta.episodes[i]["tasks"]) for i in range(n_compare)]
FirstTasks(ds, n) == [i \in 1..n |-> ds.episodes[i].tasks]

\* an order check without the minimum number of episodes
OrderCheckNoMinimum(ds, cd) ==
    LET n_compare == Min(OrderCompare, ds.total_episodes)
        original_first_tasks == FirstTasks(ds, n_compare)
        shuffled_first_tasks == FirstTasks(cd, n_compare)
    IN  IF Cardinality({original_first_tasks[i] : i \in 1..n_compare}) > 1
        THEN IF original_first_tasks # shuffled_first_tasks
             THEN Pass
             ELSE Fail("first N episode tasks are identical", 0 - 1)
        ELSE Skip("All episodes have same task")

OrderCheck(ds, cd) ==
    IF ds.total_episodes >= MinEpisodesForOrder
    THEN LET n_compare == Min(OrderCompare, ds.total_episodes)
         IN  IF Len(ds.episodes) < n_compare \/ Len(cd.episodes) < n_compare
             THEN Raise("IndexError", 0 - 1)
             ELSE LET original_first_tasks == FirstTasks(ds, n_compare)
                      shuffled_first_tasks == FirstTasks(cd, n_compare)
                  IN  IF Cardinality({original_first_tasks[i] : i \in 1..n_compare}) > 1
                      THEN IF original_first_tasks # shuffled_first_tasks
                           THEN Pass
                           ELSE Fail("first N episode tasks are identical", 0 - 1)
                      ELSE Skip("All episodes have same task")
    ELSE Skip("Too few episodes to verify shuffle")

-----------------------------------------------------------------------------
(* The validation steps as actions.  Step k runs when the steps before it  *)
(* have passed; its verdict v either ends the script or moves to step k+1. *)

Realign == "split_parquet"

Shuffle == "split_parquet_and_shuffle"

Step(k, v) ==
    /\ pc = k
    /\ outcome = "running"
    /\ result' = [result EXCEPT ![k] = v.r]
    /\ IF Aborts(v)
       THEN /\ pc' = pc
            /\ outcome' = (IF v.r = "fail" THEN "failed" ELSE "error")
            /\ detail' = v
       ELSE /\ pc' = k + 1
            /\ outcome' = (IF k = NumSteps THEN "passed" ELSE "running")
            /\ detail' = detail
    /\ UNCHANGED <<script, dataset, candidate>>

Metadata ==
    /\ Step(1, MetadataCheck(dataset, candidate))
    /\ UNCHANGED swallowed

RealignLengths ==
    /\ script = Realign
    /\ Step(2, LengthsCheck(dataset, candidate))
    /\ UNCHANGED swallowed

RealignTasks ==
    /\ script = Realign
    /\ Step(3, TasksCheck(dataset, candidate))
    /\ UNCHANGED swallowed

RealignFrames ==
    /\ script = Realign
    /\ Step(4, FramesCheck(dataset, candidate))
    /\ UNCHANGED swallowed

ShuffleTaskDistribution ==
    /\ script = Shuffle
    /\ Step(2, TaskDistributionCheck(dataset, candidate))
    /\ UNCHANGED swallowed

ShuffleSortedLengths ==
    /\ script = Shuffle
    /\ Step(3, SortedLengthsCheck(dataset, candidate))
    /\ UNCHANGED swallowed

ShuffleMatch ==
    /\ script = Shuffle
    /\ LET m == MatchCheck(dataset, candidate)
       IN  /\ Step(4, m.v)
           /\ swallowed' = m.skipped

Video ==
    /\ Step(5, VideoCheck(candidate))
    /\ UNCHANGED swallowed

Alignment ==
    /\ Step(6, AlignmentCheck(candidate))
    /\ UNCHANGED swallowed

RealignLoadAll ==
    /\ script = Realign
    /\ Step(7, LoadAllCheck(candidate))
    /\ UNCHANGED swallowed

ShuffleOrder ==
    /\ script = Shuffle
    /\ Step(7, OrderCheck(dataset, candidate))
    /\ UNCHANGED swallowed

Next ==
    \/ Metadata
    \/ RealignLengths
    \/ RealignTasks
    \/ RealignFrames
    \/ ShuffleTaskDistribution
    \/ ShuffleSortedLengths
    \/ ShuffleMatch
    \/ Video
    \/ Alignment
    \/ RealignLoadAll
    \/ ShuffleOrder

\* the state when the validation section starts, for one loaded pair
Start(c) ==
    /\ script = c.script
    /\ dataset = c.dataset
    /\ candidate = c.candidate
    /\ pc = 1
    /\ outcome = "running"
    /\ result = [k \in 1..NumSteps |-> "none"]
    /\ detail = Pass
    /\ swallowed = {}

-----------------------------------------------------------------------------
(* The datasets the library hands to the scripts.  LeRobotDataset(...)     *)
(* loads the source; realign_parquets_to_videos / shuffle_episodes return  *)
(* the transformed dataset, which is what the validation is there to       *)
(* judge, so it may be any dataset: a faithful one or a defective one.     *)

TaskNames == {"A", "B"}

VideoKeyNames == <<"image", "wrist_image">>

GoodImage == [dim |-> 3, channels |-> 3, min |-> 0, max |-> 1]

\* the episode (1-based) that holds global frame index idx
EpisodeAt(lens, idx) ==
    CHOOSE e \in 1..Len(lens) : SumTo(lens, e - 1) <= idx /\ idx < SumTo(lens, e)

\* A well-formed dataset: episode i has lens[i] frames and tasks[i]; frame j
\* of episode i carries the action vector <<content[i], j>>; the counts in
\* meta agree with the records; two episodes share a file
MkDataset(lens, tasks, content, nkeys) ==
    LET n == Len(lens)
        keys == SubSeq(VideoKeyNames, 1, nkeys)
        keyset == {keys[k] : k \in 1..nkeys}
        total == SumTo(lens, n)
    IN  [total_episodes |-> n,
         total_frames |-> total,
         total_tasks |-> Cardinality(TaskNames),
         fps |-> 20,
         video_keys |-> keys,
         episodes |-> [i \in 1..n |->
            [length |-> lens[i],
             tasks |-> tasks[i],
             dataset_from_index |-> SumTo(lens, i - 1),
             dataset_to_index |-> SumTo(lens, i),
             data |-> <<0, (i - 1) \div 2>>,
             videos |-> [key \in keyset |-> <<0, (i - 1) \div 2>>],
             meta_episodes |-> <<0, (i - 1) \div 2>>]],
         frames |-> [g \in 1..total |->
            LET e == EpisodeAt(lens, g - 1)
            IN  [action |-> [v |-> <<content[e], g - 1 - SumTo(lens, e - 1)>>,
                             nan |-> FALSE],
                 episode_index |-> e - 1,
                 readable |-> TRUE,
                 images |-> [key \in keyset |-> GoodImage]]]]

\* ds with its episodes reordered: new ordinal i holds old episode p[i].
\* Tasks, lengths and frame content move with the episode; frame ranges,
\* episode_index labels and file indices are those of the new order
Permute(ds, p) ==
    LET n == Len(p)
        lens == [i \in 1..n |-> ds.episodes[p[i]].length]
    IN  [ds EXCEPT
           !.episodes = [i \in 1..n |->
              [ds.episodes[p[i]] EXCEPT
                 !.dataset_from_index = SumTo(lens, i - 1),
                 !.dataset_to_index = SumTo(lens, i),
                 !.data = <<0, (i - 1) \div 2>>,
                 !.videos = [key \in DOMAIN @ |-> <<0, (i - 1) \div 2>>],
                 !.meta_episodes = <<0, (i - 1) \div 2>>]],
           !.frames = [g \in 1..Len(ds.frames) |->
              LET e == EpisodeAt(lens, g - 1)
                  j == g - 1 - SumTo(lens, e - 1)
              IN  [ds.frames[ds.episodes[p[e]].dataset_from_index + j + 1]
                     EXCEPT !.episode_index = e - 1]]]

\* counts in meta/info.json off by d = <<episodes, frames, tasks, fps>>
WithMeta(ds, d) ==
    [ds EXCEPT !.total_episodes = @ + d[1], !.total_frames = @ + d[2],
               !.total_tasks = @ + d[3], !.fps = @ + d[4]]

WithTasks(ds, i, t) == [ds EXCEPT !.episodes[i + 1].tasks = t]

\* episode i's (chunk_index, file_index) of one stream set to pair
WithPair(ds, i, stream, pair) ==
    IF stream = "data" THEN [ds EXCEPT !.episodes[i + 1].data = pair]
    ELSE IF stream = "meta/episodes" THEN [ds EXCEPT !.episodes[i + 1].meta_episodes = pair]
    ELSE [ds EXCEPT !.episodes[i + 1].videos[stream] = pair]

WithUnreadable(ds, idx) == [ds EXCEPT !.frames[idx + 1].readable = FALSE]

WithNaN(ds, idx) == [ds EXCEPT !.frames[idx + 1].action.nan = TRUE]

WithAction(ds, idx, delta) == [ds EXCEPT !.frames[idx + 1].action.v[1] = @ + delta]

WithLabel(ds, idx, delta) == [ds EXCEPT !.frames[idx + 1].episode_index = @ + delta]

WithImage(ds, key, img) == [ds EXCEPT !.frames[1].images[key] = img]

BadImages ==
    {[GoodImage EXCEPT !.max = 255], [GoodImage EXCEPT !.min = 0 - 1],
     [GoodImage EXCEPT !.channels = 1], [GoodImage EXCEPT !.dim = 4]}

Streams(nkeys) == {"data", "meta/episodes"} \cup {VideoKeyNames[k] : k \in 1..nkeys}

Perms(n) == {p \in [1..n -> 1..n] : \A i, j \in 1..n : p[i] = p[j] => i = j}

\* new ordinal i holds old episode i + 1, the last holds the first
Rotation(n) == [i \in 1..n |-> (i % n) + 1]

Identity(n) == [i \in 1..n |-> i]

\* i and j (1-based) exchanged
Swap(n, i, j) == [k \in 1..n |-> IF k = i THEN j ELSE IF k = j THEN i ELSE k]

Ones(n) == [i \in 1..n |-> 1]

Twos(n) == [i \in 1..n |-> 2]

LensPattern(n) == [i \in 1..n |-> 1 + (i % 2)]

\* episode contents 1e-3 apart
Contents(n) == [i \in 1..n |-> 1000 * i]

Task(name) == <<name>>

TaskPatterns(n) ==
    {[i \in 1..n |-> Task("A")],
     [i \in 1..n |-> IF i % 2 = 1 THEN Task("A") ELSE Task("B")],
     [i \in 1..n |-> IF i = n THEN Task("B") ELSE Task("A")],
     [i \in 1..n |-> IF i = 1 THEN <<"A", "B">> ELSE Task("A")]}

Alternating(n) == [i \in 1..n |-> IF i % 2 = 1 THEN Task("A") ELSE Task("B")]

Case(s, ds, cd) == [script |-> s, dataset |-> ds, candidate |-> cd]

\* one faithful run of each script
CoreDataset == MkDataset(LensPattern(5), Alternating(5), Contents(5), 2)

CoreCases ==
    {Case(Realign, CoreDataset, CoreDataset),
     Case(Shuffle, CoreDataset, Permute(CoreDataset, Rotation(5)))}

Transformed(s, ds) == IF s = Realign THEN ds ELSE Permute(ds, Rotation(Len(ds.episodes)))

\* counts in the transformed dataset's meta off by up to MaxDelta each
MetaCases(s) ==
    {Case(s, CoreDataset, WithMeta(Transformed(s, CoreDataset), d)) :
        d \in [1..4 -> (0 - MaxDelta)..MaxDelta]}

Scripts == {Realign, Shuffle}

InitMeta ==
    \/ \E c \in CoreCases : Start(c)
    \/ \E s \in Scripts : \E c \in MetaCases(s) : Start(c)

SpecMeta == InitMeta /\ [][Next]_vars

-----------------------------------------------------------------------------
(* Input families of the other specifications *)

\* the ways one dataset can be defective, one defect at a time
Defects(ds) ==
    LET n == Len(ds.episodes)
        nkeys == Len(ds.video_keys)
    IN  {ds}
        \cup {WithPair(ds, i, st, <<7, 7>>) : i \in 0..(n - 1), st \in Streams(nkeys)}
        \cup {WithImage(ds, VideoKeyNames[k], img) : k \in 1..nkeys, img \in BadImages}
        \cup {WithUnreadable(ds, idx) : idx \in 0..(Len(ds.frames) - 1)}
        \cup {WithNaN(ds, idx) : idx \in 0..(Len(ds.frames) - 1)}

SmallDatasets(n) ==
    {MkDataset(lens, Alternating(n), Contents(n), nkeys) :
        lens \in [1..n -> 1..2], nkeys \in 0..2}

\* long enough to have episodes past the alignment prefix
LongDatasets(n) == {MkDataset(Ones(n), Alternating(n), Contents(n), nkeys) : nkeys \in 1..2}

\* realign handing back the very dataset it was given
ReflexiveCases(n) ==
    IF n <= MaxSmall
    THEN {Case(Realign, d, d) : d \in UNION {Defects(ds) : ds \in SmallDatasets(n)}}
    ELSE {Case(Realign, d, d) :
            d \in UNION {{WithPair(ds, i, st, <<7, 7>>) :
                             i \in (AlignEpisodes - 1)..(n - 1),
                             st \in Streams(Len(ds.video_keys))} : ds \in LongDatasets(n)}}

InitReflexive ==
    \/ \E c \in CoreCases : Start(c)
    \/ \E n \in (1..MaxSmall) \cup (AlignEpisodes..(AlignEpisodes + Beyond)) :
          \E c \in ReflexiveCases(n) : Start(c)

SpecReflexive == InitReflexive /\ [][Next]_vars

\* the other task
Flip(t) == IF t = Task("A") THEN Task("B") ELSE Task("A")

\* lens with the lengths of episodes i and i + 1 (1-based) exchanged
SwapLens(lens, i) == [k \in 1..Len(lens) |->
    IF k = i THEN lens[i + 1] ELSE IF k = i + 1 THEN lens[i] ELSE lens[k]]

\* lens with episode i (1-based) one frame longer
Longer(lens, i) == [k \in 1..Len(lens) |-> IF k = i THEN lens[k] + 1 ELSE lens[k]]

\* realign outputs that differ from the source in one episode's tasks, in
\* two neighbouring episodes' lengths, or in one episode's length while
\* meta/info.json still carries the source's frame count
EpisodeCases(n) ==
    LET ds == MkDataset(LensPattern(n), Alternating(n), Contents(n), 1)
    IN  {Case(Realign, ds, ds)}
        \cup {Case(Realign, ds, WithTasks(ds, i, Flip(Episode(ds, i).tasks))) :
                i \in 0..(n - 1)}
        \cup {Case(Realign, ds,
                   MkDataset(SwapLens(LensPattern(n), i), Alternating(n), Contents(n), 1)) :
                i \in 1..(n - 1)}
        \cup {Case(Realign, ds,
                   [MkDataset(Longer(LensPattern(n), i), Alternating(n), Contents(n), 1)
                       EXCEPT !.total_frames = ds.total_frames]) :
                i \in 1..n}

InitEpisodes ==
    \/ \E c \in CoreCases : Start(c)
    \/ \E n \in 1..(SampleEpisodes + Beyond) : \E c \in EpisodeCases(n) : Start(c)

SpecEpisodes == InitEpisodes /\ [][Next]_vars

\* outputs of either script with one episode's pair of one stream off
AlignCases(s, n, nkeys) ==
    LET ds == MkDataset(Ones(n), Alternating(n), Contents(n), nkeys)
    IN  {Case(s, ds, Transformed(s, ds))}
        \cup {Case(s, ds, WithPair(Transformed(s, ds), i, st, <<7, 7>>)) :
                i \in 0..(n - 1), st \in Streams(nkeys)}

InitAlign ==
    \/ \E c \in CoreCases : Start(c)
    \/ \E s \in Scripts :
          \E n \in (1..MaxSmall) \cup ((AlignEpisodes - 1)..(AlignEpisodes + Beyond)) :
             \E nkeys \in (IF n <= MaxSmall THEN 0 ELSE 1)..2 :
                \E c \in AlignCases(s, n, nkeys) : Start(c)

SpecAlign == InitAlign /\ [][Next]_vars

\* only the episode at ordinal 10 has the other task
EleventhOnly(n) == [i \in 1..n |-> IF i = 11 THEN Task("B") ELSE Task("A")]

\* shuffle outputs that are the source reordered: every order of a few
\* episodes, and some orders of more episodes than the order check compares
PermuteCases(n) ==
    IF n <= MaxPerm
    THEN {Case(Shuffle, MkDataset(LensPattern(n), t, Contents(n), 2),
               Permute(MkDataset(LensPattern(n), t, Contents(n), 2), p)) :
            t \in TaskPatterns(n), p \in Perms(n)}
    ELSE {Case(Shuffle, MkDataset(Ones(n), t, Contents(n), 1),
               Permute(MkDataset(Ones(n), t, Contents(n), 1), p)) :
            t \in TaskPatterns(n) \cup {EleventhOnly(n)},
            p \in {Identity(n), Rotation(n), Swap(n, 1, 2), Swap(n, 1, n), Swap(n, n - 1, n)}}

InitPermute ==
    \/ \E c \in CoreCases : Start(c)
    \/ \E n \in (1..MaxPerm) \cup (OrderCompare..(OrderCompare + Beyond)) :
          \E c \in PermuteCases(n) : Start(c)

SpecPermute == InitPermute /\ [][Next]_vars

TaskTuples == {Task("A"), Task("B")}

\* shuffle outputs with any lengths and tasks, as many episodes as the
\* source or one fewer
DistCases(n, m) ==
    {Case(Shuffle, MkDataset(lens, t, Contents(n), 1), MkDataset(lensC, tC, Contents(m), 1)) :
        lens \in {Twos(n), LensPattern(n)}, t \in TaskPatterns(n),
        tC \in [1..m -> TaskTuples], lensC \in [1..m -> 1..3]}

\* sources and outputs with one frame that cannot be read
AccessCases(s, n) ==
    LET base == MkDataset(LensPattern(n), Alternating(n), Contents(n), 1)
        holes(d) == {d} \cup {WithUnreadable(d, idx) : idx \in 0..(Len(d.frames) - 1)}
    IN  {Case(s, ds, cd) :
            ds \in holes(base),
            cd \in UNION {holes(Permute(base, p)) :
                            p \in IF s = Realign THEN {Identity(n)} ELSE Perms(n)}}

\* realign outputs that differ from the source in one frame: its action
\* (by 5e-6, 1.5e-5 or 2.5e-5), its episode_index label, a NaN, or a
\* frame that cannot be read; action values near 0 and near 1.0
ActionDeltas == {5, 15, 0 - 15, 25}

FrameCases(N) ==
    UNION {
        LET ds == MkDataset(lens, [i \in 1..Len(lens) |-> Task("A")],
                            [i \in 1..Len(lens) |-> c], 1)
        IN  {Case(Realign, ds, ds)}
            \cup {Case(Realign, ds, WithAction(ds, f, d)) : f \in 0..(N - 1), d \in ActionDeltas}
            \cup {Case(Realign, ds, WithLabel(ds, f, 1)) : f \in 0..(N - 1)}
            \cup {Case(Realign, ds, WithNaN(ds, f)) : f \in 0..(N - 1)}
            \cup {Case(Realign, ds, WithUnreadable(ds, f)) : f \in 0..(N - 1)}
        : lens \in {<<N>>} \cup (IF N >= 2 THEN {<<N \div 2, N - (N \div 2)>>} ELSE {}),
          c \in {0, 1000000}}

InitDist ==
    \/ \E c \in CoreCases : Start(c)
    \/ \E n \in 1..MaxDist : \E m \in {n - 1, n} \ {0} : \E c \in DistCases(n, m) : Start(c)

SpecDist == InitDist /\ [][Next]_vars

InitAccess ==
    \/ \E c \in CoreCases : Start(c)
    \/ \E s \in Scripts : \E n \in 2..MaxAccess : \E c \in AccessCases(s, n) : Start(c)

SpecAccess == InitAccess /\ [][Next]_vars

InitFrames ==
    \/ \E c \in CoreCases : Start(c)
    \/ \E N \in 1..MaxFrames : \E c \in FrameCases(N) : Start(c)

SpecFrames == InitFrames /\ [][Next]_vars

\* runs that end at every stage: all the small families together
InitStages == InitMeta \/ InitReflexive \/ InitEpisodes \/ InitFrames \/ InitDist

SpecStages == InitStages /\ [][Next]_vars

-----------------------------------------------------------------------------
(* Claims *)

MetaEqual ==
    /\ candidate.total_episodes = dataset.total_episodes
    /\ candidate.total_frames = dataset.total_frames
    /\ candidate.total_tasks = dataset.total_tasks
    /\ candidate.fps = dataset.fps

(* C1: in both scripts the global metadata check, once it has run, has     *)
(* passed exactly when total_episodes, total_frames, total_tasks and fps   *)
(* of the candidate all equal the reference's, and has failed otherwise.   *)
C1_MetadataExact ==
    result[1] # "none" =>
        /\ result[1] \in {"pass", "fail"}
        /\ result[1] = "pass" <=> MetaEqual

\* the check has failed on a candidate whose only difference is one more frame
C1_Witness ==
    /\ result[1] = "fail"
    /\ candidate.total_frames = dataset.total_frames + 1
    /\ candidate.total_episodes = dataset.total_episodes
    /\ candidate.total_tasks = dataset.total_tasks
    /\ candidate.fps = dataset.fps

\* {0, N div 4, N div 2, 3N div 4, N - 1}
Quartiles(N) == {0, N \div 4, N \div 2, (3 * N) \div 4, N - 1}

ValidImage(img) == img.dim = 3 /\ img.channels = 3 /\ img.min >= 0 /\ img.max <= 1

\* episode i's data pair equals its first video key's pair and its meta pair
AlignedOnFirstKey(d, i) ==
    /\ Episode(d, i).data = Episode(d, i).videos[d.video_keys[1]]
    /\ Episode(d, i).data = Episode(d, i).meta_episodes

\* what reflexivity needs of D: a video key, readable sampled frames with
\* no NaN action, a valid decoded frame 0 for every video key, and the
\* first 20 episodes aligned on the first video key
SoundForRealign(d) ==
    /\ Len(d.video_keys) >= 1
    /\ \A idx \in Quartiles(d.total_frames) :
          Readable(d, idx) /\ ~Frame(d, idx).action.nan
    /\ \A k \in 1..Len(d.video_keys) : ValidImage(Frame(d, 0).images[d.video_keys[k]])
    /\ \A i \in 0..(Min(AlignEpisodes, d.total_episodes) - 1) : AlignedOnFirstKey(d, i)

ChecksPassSoFar == \A k \in 1..6 : result[k] \in {"none", "pass"}

C6_AllStagesReported ==
    outcome \in {"failed", "error"} => \A k \in 1..6 : result[k] # "none"

(* C6 amended: when a check stage fails (or raises), the run ends at that  *)
(* stage: every earlier stage has passed or was skipped and no later stage *)
(* is ever evaluated.                                                      *)
C6_EndsAtFirstFailure ==
    \A k \in 1..NumSteps :
        result[k] \in {"fail", "error"} =>
            /\ outcome \in {"failed", "error"}
            /\ pc = k
            /\ detail.r = result[k]
            /\ \A j \in 1..(k - 1) : result[j] \in {"pass", "skip"}
            /\ \A j \in (k + 1)..NumSteps : result[j] = "none"

\* the run has ended at a failed metadata check with nothing else evaluated
C6_Witness ==
    /\ outcome = "failed"
    /\ result[1] = "fail"
    /\ \A j \in 2..NumSteps : result[j] = "none"

\* ordinals at which the two datasets' episodes differ in length / in tasks
LengthDiffers(i) == Episode(dataset, i).length # Episode(candidate, i).length

TasksDiffer(i) == Episode(dataset, i).tasks # Episode(candidate, i).tasks

AllOrdinals == 0..(dataset.total_episodes - 1)

FirstTen == 0..(Min(10, dataset.total_episodes) - 1)

(* C4 as stated: in identity-order validation, if any single episode at    *)
(* any ordinal in [0, total_episodes), ordinals 10 and above included,     *)
(* differs in length or tasks, the episode equivalence check fails.        *)
C4_EveryOrdinalChecked ==
    (script = Realign /\ result[3] # "none") =>
        ((\E i \in AllOrdinals : LengthDiffers(i) \/ TasksDiffer(i)) => result[3] = "fail")

(* C4 amended: in identity-order validation the episode equivalence check  *)
(* looks only at ordinals below min(10, total_episodes): its length step   *)
(* fails exactly when one of those episodes differs in length, naming the  *)
(* first such ordinal, and its tasks step fails exactly when one of them   *)
(* differs in tasks; episodes at ordinals 10 and above are not examined.   *)
C4_FirstTenChecked ==
    script = Realign =>
        /\ result[2] # "none" =>
              /\ result[2] = "fail" <=> \E i \in FirstTen : LengthDiffers(i)
              /\ result[2] = "pass" <=> \A i \in FirstTen : ~LengthDiffers(i)
              /\ result[2] = "fail" =>
                    detail.index = SetMin({i \in FirstTen : LengthDiffers(i)})
        /\ result[3] # "none" =>
              /\ result[3] = "fail" <=> \E i \in FirstTen : TasksDiffer(i)
              /\ result[3] = "pass" <=> \A i \in FirstTen : ~TasksDiffer(i)
              /\ result[3] = "fail" =>
                    detail.index = SetMin({i \in FirstTen : TasksDiffer(i)})

\* the tasks step has failed on a candidate whose only differing episode is
\* ordinal 9, the last one examined
C4_Witness ==
    /\ script = Realign
    /\ dataset.total_episodes > 10
    /\ result[3] = "fail"
    /\ {i \in AllOrdinals : TasksDiffer(i)} = {9}

\* episodes of the candidate with two streams' pairs different
Divergent(cd) ==
    {i \in 0..(Len(cd.episodes) - 1) :
        \/ Episode(cd, i).data # Episode(cd, i).meta_episodes
        \/ \E k \in 1..Len(cd.video_keys) :
              \/ Episode(cd, i).videos[cd.video_keys[k]] # Episode(cd, i).data
              \/ Episode(cd, i).videos[cd.video_keys[k]] # Episode(cd, i).meta_episodes}

\* episodes among the first 20 whose data pair differs from the first video
\* key's pair or from the meta/episodes pair
DivergentPrefix(cd) ==
    {i \in 0..(Min(20, Len(cd.episodes)) - 1) : ~AlignedOnFirstKey(cd, i)}

EpisodeContent(d, i) ==
    [tasks |-> Episode(d, i).tasks,
     length |-> Episode(d, i).length,
     actions |-> [j \in 1..Episode(d, i).length |->
                    Frame(d, Episode(d, i).dataset_from_index + j - 1).action]]

\* how many episodes of d have content c
Copies(d, c) == Cardinality({i \in 0..(Len(d.episodes) - 1) : EpisodeContent(d, i) = c})

\* cd holds the episodes of d, each as often, in some order, with d's counts
IsReorder(d, cd) ==
    /\ cd.total_episodes = d.total_episodes
    /\ cd.total_frames = d.total_frames
    /\ cd.total_tasks = d.total_tasks
    /\ cd.fps = d.fps
    /\ Len(cd.episodes) = Len(d.episodes)
    /\ \A i \in 0..(Len(d.episodes) - 1) :
          Copies(cd, EpisodeContent(d, i)) = Copies(d, EpisodeContent(d, i))

FilesAligned(cd) == Divergent(cd) = {}

AllReadable(d) ==
    \A idx \in 0..(Len(d.frames) - 1) : Readable(d, idx) /\ ~Frame(d, idx).action.nan

SoundVideo(cd) ==
    /\ Len(cd.video_keys) >= 1
    /\ \A k \in 1..Len(cd.video_keys) : ValidImage(Frame(cd, 0).images[cd.video_keys[k]])

\* tasks of the first min(10, total_episodes) episodes
FirstN(d) == [i \in 1..Min(10, d.total_episodes) |-> d.episodes[i].tasks]

DistinctFirstN(d) == Cardinality({FirstN(d)[i] : i \in DOMAIN FirstN(d)})

NeverFails == \A k \in 1..NumSteps : result[k] \in {"none", "pass", "skip"}

(* C3 as stated: for every dataset D and every candidate obtained from D   *)
(* by reordering its episodes, content preserved and files aligned, the    *)
(* permutation-mode validation passes all stages, the order-change check   *)
(* included.                                                               *)
C3_AnyReorderPasses ==
    (script = Shuffle /\ IsReorder(dataset, candidate) /\ FilesAligned(candidate)
        /\ AllReadable(dataset) /\ AllReadable(candidate) /\ SoundVideo(candidate))
    => NeverFails

(* C3 amended: for every dataset D and every candidate obtained from D by  *)
(* reordering its episodes, content preserved, files aligned, frames       *)
(* readable with no NaN action and frame 0 decoding to valid images, the   *)
(* permutation-mode validation passes stages 1 to 6; the order-change      *)
(* check is skipped when D has fewer than 5 episodes or its first          *)
(* min(10, total_episodes) episodes share one tasks value, and otherwise   *)
(* passes exactly when the candidate's first-N tasks sequence differs from *)
(* D's, so a reordering that leaves that sequence unchanged fails it.  The *)
(* verdict is a function of the two datasets, so a candidate produced      *)
(* again by the same permutation gets the same verdict.                    *)
C3_ReorderPasses ==
    (script = Shuffle /\ IsReorder(dataset, candidate) /\ FilesAligned(candidate)
        /\ AllReadable(dataset) /\ AllReadable(candidate) /\ SoundVideo(candidate))
    => /\ ChecksPassSoFar
       /\ outcome # "running" => result[6] = "pass"
       /\ result[7] # "none" =>
             /\ result[7] = "skip" <=>
                   (dataset.total_episodes < 5 \/ DistinctFirstN(dataset) <= 1)
             /\ result[7] = "pass" <=>
                   /\ dataset.total_episodes >= 5
                   /\ DistinctFirstN(dataset) > 1
                   /\ FirstN(candidate) # FirstN(dataset)
             /\ result[7] \in {"skip", "pass", "fail"}

\* a genuinely reordered candidate has passed every stage, the order check
\* included
C3_Witness ==
    /\ script = Shuffle
    /\ outcome = "passed"
    /\ result[7] = "pass"
    /\ IsReorder(dataset, candidate)
    /\ \E i \in 0..(dataset.total_episodes - 1) :
          EpisodeContent(candidate, i) # EpisodeContent(dataset, i)

(* C8 as stated: the order-change check is skipped only when all of the    *)
(* reference's first N = min(10, total_episodes) episodes share one tasks  *)
(* value; with at least two distinct values, for any total_episodes >= 2,  *)
(* it fails if the first-N tasks sequences are identical and passes        *)
(* otherwise.                                                              *)
C8_SkippedOnlyWhenOneTask ==
    (script = Shuffle /\ result[7] # "none" /\ dataset.total_episodes >= 2) =>
        /\ result[7] = "skip" => DistinctFirstN(dataset) <= 1
        /\ DistinctFirstN(dataset) > 1 =>
              IF FirstN(candidate) = FirstN(dataset)
              THEN result[7] = "fail" ELSE result[7] = "pass"

(* C8 amended: the order-change check is skipped when total_episodes < 5   *)
(* or all of the reference's first N = min(10, total_episodes) episodes    *)
(* share one tasks value; when total_episodes >= 5 and at least two        *)
(* distinct tasks values occur among them, it fails if the candidate's     *)
(* first-N tasks sequence is identical to the reference's and passes       *)
(* otherwise.                                                              *)
C8_SkippedWhenFewOrOneTask ==
    (script = Shuffle /\ result[7] # "none") =>
        /\ result[7] = "skip" <=>
              (dataset.total_episodes < 5 \/ DistinctFirstN(dataset) <= 1)
        /\ (dataset.total_episodes >= 5 /\ DistinctFirstN(dataset) > 1) =>
              IF FirstN(candidate) = FirstN(dataset)
              THEN result[7] = "fail" ELSE result[7] = "pass"

\* the check has failed on a candidate that differs from the reference
\* only past the first 10 episodes
C8_Witness ==
    /\ script = Shuffle
    /\ result[7] = "fail"
    /\ dataset.total_episodes > 10
    /\ \E i \in 10..(dataset.total_episodes - 1) : TasksDiffer(i)

\* how many episodes of d have tasks tuple t / length l
TasksCount(d, t) == Cardinality({i \in 0..(Len(d.episodes) - 1) : Episode(d, i).tasks = t})

LengthCount(d, l) == Cardinality({i \in 0..(Len(d.episodes) - 1) : Episode(d, i).length = l})

TasksOf(d) == {Episode(d, i).tasks : i \in 0..(Len(d.episodes) - 1)}

LengthsOf(d) == {Episode(d, i).length : i \in 0..(Len(d.episodes) - 1)}

\* the two datasets hold each tasks tuple equally often
SameTasksBag ==
    \A t \in TasksOf(dataset) \cup TasksOf(candidate) :
        TasksCount(dataset, t) = TasksCount(candidate, t)

\* the two datasets hold each episode length equally often
SameLengthsBag ==
    \A l \in LengthsOf(dataset) \cup LengthsOf(candidate) :
        LengthCount(dataset, l) = LengthCount(candidate, l)

(* C9: in permutation mode the task-distribution step, once the metadata   *)
(* check has passed, never indexes a missing episode and passes exactly    *)
(* when the multiset of per-episode tasks tuples is the same in both       *)
(* datasets; the sorted-lengths step, evaluated separately after it,       *)
(* passes exactly when the multiset of episode lengths is the same.        *)
C9_DistributionExact ==
    script = Shuffle =>
        /\ result[2] # "none" =>
              /\ result[2] \in {"pass", "fail"}
              /\ result[2] = "pass" <=> SameTasksBag
        /\ result[3] # "none" =>
              /\ result[3] \in {"pass", "fail"}
              /\ result[3] = "pass" <=> SameLengthsBag

\* both steps have passed on a candidate that is no reordering of the
\* reference: some reference episode's (tasks, length) pair occurs nowhere
\* in the candidate
C9_Witness ==
    /\ script = Shuffle
    /\ result[2] = "pass"
    /\ result[3] = "pass"
    /\ \E i \in 0..(dataset.total_episodes - 1) :
          \A j \in 0..(candidate.total_episodes - 1) :
              \/ Episode(candidate, j).tasks # Episode(dataset, i).tasks
              \/ Episode(candidate, j).length # Episode(dataset, i).length

(* C7: a failure to read a reference episode during the permutation-mode   *)
(* matching search is never silently skipped, and a run in which one       *)
(* happened never ends in an overall pass.                                 *)
C7_AccessFailurePropagates ==
    script = Shuffle => (outcome = "passed" => swallowed = {})

\* the sampled frames of both datasets can be read
SamplesReadable ==
    \A idx \in Quartiles(dataset.total_frames) :
        Readable(dataset, idx) /\ Readable(candidate, idx)

LabelsDiffer(idx) == Frame(dataset, idx).episode_index # Frame(candidate, idx).episode_index

HasNaN(idx) == Frame(dataset, idx).action.nan \/ Frame(candidate, idx).action.nan

\* some component of the two action vectors differs by more than 1e-5
ActionsDifferBeyondAtol(idx) ==
    \E i \in 1..Len(Frame(dataset, idx).action.v) :
        Abs(Frame(dataset, idx).action.v[i] - Frame(candidate, idx).action.v[i]) > 10

\* some component differs by more than 1e-5 + 1e-5 * |candidate's value|
ActionsDifferBeyondAllclose(idx) ==
    \E i \in 1..Len(Frame(dataset, idx).action.v) :
        Abs(Frame(dataset, idx).action.v[i] - Frame(candidate, idx).action.v[i])
            > 10 + (Abs(Frame(candidate, idx).action.v[i]) \div 100000)

SampledAsQuartiles ==
    /\ {SampleIndices(dataset)[k] : k \in 1..5} = Quartiles(dataset.total_frames)
    /\ Quartiles(dataset.total_frames) \subseteq 0..(dataset.total_frames - 1)

=============================================================================
